---- MODULE Spec2Model ----
(***************************************************************************)
(* Phone-number normalisation of AT-parseText (src/phone-utils.js):        *)
(* cleanRawInput, detectPhoneType and formatPhoneNumber over the           *)
(* COUNTRY_CONFIGS table.                                                  *)
(*                                                                         *)
(* A JavaScript string is modelled as a sequence of one-character strings, *)
(* so that startsWith, substring, length and the regular expressions are   *)
(* computed character by character.  A JavaScript value handed to the      *)
(* functions is a record [tag, chars]: tag is the typeof of the value      *)
(* ("string", "number") or "null" / "undefined"; chars holds the           *)
(* characters of a string, or the decimal digits of a number.              *)
(***************************************************************************)
EXTENDS Integers, Sequences, FiniteSets, TLC

\* Largest number of filler digits appended to the head of an input.
MaxFill == 14

Digits == {"0", "1", "2", "3", "4", "5", "6", "7", "8", "9"}

DigitSeq == <<"0", "1", "2", "3", "4", "5", "6", "7", "8", "9">>

----------------------------------------------------------------------------
\* String primitives of JavaScript used by the module.

\* String.prototype.startsWith
startsWith(s, p) == Len(s) >= Len(p) /\ SubSeq(s, 1, Len(p)) = p

\* String.prototype.substring(n): the characters from index n (0-based) on
substring(s, n) == SubSeq(s, n + 1, Len(s))

\* s.includes(p): p occurs somewhere in s
includes(s, p) == \E i \in 1..Len(s) : startsWith(SubSeq(s, i, Len(s)), p)

\* A completed call: a returned string, or a thrown TypeError.
Return(v) == [threw |-> FALSE, value |-> v]

\* phone.replace is not a function
ThrowTypeError == [threw |-> TRUE, value |-> <<"T", "y", "p", "e", "E", "r", "r", "o", "r">>]

\* !phone : null, undefined, '', 0 are falsy
Falsy(phone) ==
    \/ phone.tag \in {"null", "undefined"}
    \/ phone.tag = "string" /\ phone.chars = <<>>
    \/ phone.tag = "number" /\ phone.chars = <<"0">>

----------------------------------------------------------------------------
\* COUNTRY_CONFIGS, in the order of Object.entries.  A pattern without
\* excludeStartsWith has the empty sequence; a pattern without length has
\* length 0 (falsy in `pattern.length ? ... : ...`), and one without
\* minLength / maxLength has 0 there.
Pattern(key, starts, excl, len, min, max, type) ==
    [key |-> key, startsWith |-> starts, excludeStartsWith |-> excl,
     length |-> len, minLength |-> min, maxLength |-> max, type |-> type]

COUNTRY_CONFIGS ==
    << [code |-> "FR", prefix |-> <<"3", "3">>, patterns |->
          << Pattern("mobile", <<<<"0", "6">>, <<"0", "7">>, <<"3", "3">>>>, <<>>, 10, 0, 0, <<"M", "o", "b", "i", "l", "e", " ", "F", "R">>),
             Pattern("landline", <<<<"0", "1">>, <<"0", "2">>, <<"0", "3">>, <<"0", "4">>, <<"0", "5">>, <<"0", "9">>>>, <<>>, 10, 0, 0, <<"F", "i", "x", "e", " ", "F", "R">>) >>],
       [code |-> "CH", prefix |-> <<"4", "1">>, patterns |->
          << Pattern("mobile", <<<<"4", "1", "7">>>>, <<>>, 11, 0, 0, <<"M", "o", "b", "i", "l", "e", " ", "C", "H">>),
             Pattern("landline", <<<<"4", "1">>>>, <<<<"4", "1", "7">>>>, 11, 0, 0, <<"F", "i", "x", "e", " ", "C", "H">>) >>],
       [code |-> "BE", prefix |-> <<"3", "2">>, patterns |->
          << Pattern("all", <<<<"3", "2">>>>, <<>>, 11, 0, 0, <<"B", "E">>) >>],
       [code |-> "IT", prefix |-> <<"3", "9">>, patterns |->
          << Pattern("all", <<<<"3", "9">>>>, <<>>, 12, 0, 0, <<"I", "T">>) >>],
       [code |-> "AND", prefix |-> <<"3", "7", "6">>, patterns |->
          << Pattern("all", <<<<"3", "7", "6">>>>, <<>>, 9, 0, 0, <<"A", "N", "D">>) >>],
       [code |-> "RUN", prefix |-> <<"2", "6", "2">>, patterns |->
          << Pattern("mobile", <<<<"2", "6", "2", "6", "9", "2">>, <<"2", "6", "2", "6", "9", "3">>>>, <<>>, 12, 0, 0, <<"M", "o", "b", "i", "l", "e", " ", "R", "U", "N">>),
             Pattern("landline", <<<<"2", "6", "2", "2", "6", "2">>>>, <<>>, 12, 0, 0, <<"F", "i", "x", "e", " ", "R", "U", "N">>) >>],
       [code |-> "DE", prefix |-> <<"4", "9">>, patterns |->
          << Pattern("all", <<<<"4", "9">>>>, <<>>, 0, 11, 15, <<"D", "E">>) >>] >>

----------------------------------------------------------------------------
\* cleanRawInput

\* phone.replace(/[^\d+]/g, '') : every character that is neither an ASCII
\* digit nor '+' is removed, wherever it stands
stripNonDigits(s) == SelectSeq(s, LAMBDA c : c \in Digits \cup {"+"})

\* mutant: the access prefix taken to be a single '0'
dropAccessPrefixOneZero(cleaned) ==
    IF startsWith(cleaned, <<"+">>) THEN substring(cleaned, 1)
    ELSE IF startsWith(cleaned, <<"0">>) THEN substring(cleaned, 1)
    ELSE cleaned

\* mutant: the '00' access sequence left in place
dropAccessPrefixPlusOnly(cleaned) ==
    IF startsWith(cleaned, <<"+">>) THEN substring(cleaned, 1)
    ELSE cleaned

\* the if / else if on the stripped string
dropAccessPrefix(cleaned) ==
    IF startsWith(cleaned, <<"+">>) THEN substring(cleaned, 1)
    ELSE IF startsWith(cleaned, <<"0", "0">>) THEN substring(cleaned, 2)
    ELSE cleaned

cleanRawInput(phone) ==
    IF Falsy(phone) THEN Return(<<>>)
    ELSE IF phone.tag # "string" THEN ThrowTypeError
    ELSE Return(dropAccessPrefix(stripNonDigits(phone.chars)))

----------------------------------------------------------------------------
\* detectPhoneType

\* /^0[1-5]|09/.test(cleaned) : the alternation is (^0[1-5]) | (09), so the
\* second branch matches "09" anywhere in the string
testLandlineRegex(cleaned) ==
    \/ \E d \in {"1", "2", "3", "4", "5"} : startsWith(cleaned, <<"0", d>>)
    \/ includes(cleaned, <<"0", "9">>)

\* the special case for French numbers starting with 0; <<>> stands for
\* "no return here, go on to the table"
frenchLocalType(cleaned) ==
    IF startsWith(cleaned, <<"0">>) /\ Len(cleaned) = 10
    THEN IF startsWith(cleaned, <<"0", "6">>) \/ startsWith(cleaned, <<"0", "7">>)
         THEN <<"M", "o", "b", "i", "l", "e", " ", "F", "R">>
         ELSE IF testLandlineRegex(cleaned) THEN <<"F", "i", "x", "e", " ", "F", "R">> ELSE <<>>
    ELSE <<>>

matchesStart(pattern, cleaned) ==
    \E i \in 1..Len(pattern.startsWith) :
        LET start == pattern.startsWith[i] IN
        IF start = <<"3", "3">> /\ startsWith(cleaned, <<"0">>)
        THEN Len(substring(cleaned, 1)) = 9
        ELSE startsWith(cleaned, start)

\* mutant: excludeStartsWith ignored
isExcludedNever(pattern, cleaned) == FALSE

isExcluded(pattern, cleaned) ==
    \E i \in 1..Len(pattern.excludeStartsWith) :
        startsWith(cleaned, pattern.excludeStartsWith[i])

hasValidLength(pattern, cleaned) ==
    IF pattern.length # 0
    THEN Len(cleaned) = pattern.length
    ELSE Len(cleaned) >= pattern.minLength /\ Len(cleaned) <= pattern.maxLength

patternMatches(pattern, cleaned) ==
    matchesStart(pattern, cleaned) /\ ~isExcluded(pattern, cleaned)
        /\ hasValidLength(pattern, cleaned)

\* the two nested for loops, from country c and pattern p on
RECURSIVE tableType(_, _, _, _)
tableType(configs, cleaned, c, p) ==
    IF c > Len(configs) THEN <<"I", "n", "c", "o", "n", "n", "u">>
    ELSE IF p > Len(configs[c].patterns) THEN tableType(configs, cleaned, c + 1, 1)
    ELSE IF patternMatches(configs[c].patterns[p], cleaned)
         THEN configs[c].patterns[p].type
         ELSE tableType(configs, cleaned, c, p + 1)

detectIn(configs, cleaned) ==
    IF frenchLocalType(cleaned) # <<>> THEN frenchLocalType(cleaned)
    ELSE tableType(configs, cleaned, 1, 1)

detectPhoneType(phone) ==
    LET c == cleanRawInput(phone) IN
    IF c.threw THEN c ELSE Return(detectIn(COUNTRY_CONFIGS, c.value))

----------------------------------------------------------------------------
\* formatPhoneNumber

ErrVide == <<"E", "r", "r", "e", "u", "r", ":", " ", "N", "u", "m", "é", "r", "o", " ", "v", "i", "d", "e">>
ErrInvalide == <<"E", "r", "r", "e", "u", "r", ":", " ", "N", "u", "m", "é", "r", "o", " ", "i", "n", "v", "a", "l", "i", "d", "e", " ", "a", "p", "r", "è", "s", " ", "n", "e", "t", "t", "o", "y", "a", "g", "e">>
ErrFR == <<"E", "r", "r", "e", "u", "r", ":", " ", "L", "e", "s", " ", "n", "u", "m", "é", "r", "o", "s", " ", "f", "r", "a", "n", "ç", "a", "i", "s", " ", "d", "o", "i", "v", "e", "n", "t", " ", "c", "o", "n", "t", "e", "n", "i", "r", " ", "e", "x", "a", "c", "t", "e", "m", "e", "n", "t", " ", "1", "0", " ", "c", "h", "i", "f", "f", "r", "e", "s">>
ErrFixe == <<"E", "r", "r", "e", "u", "r", ":", " ", "N", "u", "m", "é", "r", "o", " ", "f", "i", "x", "e", " ", "n", "o", "n", " ", "a", "u", "t", "o", "r", "i", "s", "é">>
ErrCH == <<"E", "r", "r", "e", "u", "r", ":", " ", "L", "e", "s", " ", "n", "u", "m", "é", "r", "o", "s", " ", "m", "o", "b", "i", "l", "e", "s", " ", "s", "u", "i", "s", "s", "e", "s", " ", "d", "o", "i", "v", "e", "n", "t", " ", "c", "o", "n", "t", "e", "n", "i", "r", " ", "e", "x", "a", "c", "t", "e", "m", "e", "n", "t", " ", "1", "1", " ", "c", "h", "i", "f", "f", "r", "e", "s">>
ErrBE == <<"E", "r", "r", "e", "u", "r", ":", " ", "L", "e", "s", " ", "n", "u", "m", "é", "r", "o", "s", " ", "b", "e", "l", "g", "e", "s", " ", "d", "o", "i", "v", "e", "n", "t", " ", "c", "o", "n", "t", "e", "n", "i", "r", " ", "e", "x", "a", "c", "t", "e", "m", "e", "n", "t", " ", "1", "1", " ", "c", "h", "i", "f", "f", "r", "e", "s">>
ErrIT == <<"E", "r", "r", "e", "u", "r", ":", " ", "L", "e", "s", " ", "n", "u", "m", "é", "r", "o", "s", " ", "i", "t", "a", "l", "i", "e", "n", "s", " ", "d", "o", "i", "v", "e", "n", "t", " ", "c", "o", "n", "t", "e", "n", "i", "r", " ", "e", "x", "a", "c", "t", "e", "m", "e", "n", "t", " ", "1", "2", " ", "c", "h", "i", "f", "f", "r", "e", "s">>
ErrAND == <<"E", "r", "r", "e", "u", "r", ":", " ", "L", "e", "s", " ", "n", "u", "m", "é", "r", "o", "s", " ", "a", "n", "d", "o", "r", "r", "a", "n", "s", " ", "d", "o", "i", "v", "e", "n", "t", " ", "c", "o", "n", "t", "e", "n", "i", "r", " ", "e", "x", "a", "c", "t", "e", "m", "e", "n", "t", " ", "9", " ", "c", "h", "i", "f", "f", "r", "e", "s">>
ErrRUNMobile == <<"E", "r", "r", "e", "u", "r", ":", " ", "L", "e", "s", " ", "n", "u", "m", "é", "r", "o", "s", " ", "m", "o", "b", "i", "l", "e", "s", " ", "r", "é", "u", "n", "i", "o", "n", "n", "a", "i", "s", " ", "d", "o", "i", "v", "e", "n", "t", " ", "c", "o", "n", "t", "e", "n", "i", "r", " ", "e", "x", "a", "c", "t", "e", "m", "e", "n", "t", " ", "1", "2", " ", "c", "h", "i", "f", "f", "r", "e", "s">>
ErrRUNFixe == <<"E", "r", "r", "e", "u", "r", ":", " ", "L", "e", "s", " ", "n", "u", "m", "é", "r", "o", "s", " ", "f", "i", "x", "e", "s", " ", "r", "é", "u", "n", "i", "o", "n", "n", "a", "i", "s", " ", "d", "o", "i", "v", "e", "n", "t", " ", "c", "o", "n", "t", "e", "n", "i", "r", " ", "e", "x", "a", "c", "t", "e", "m", "e", "n", "t", " ", "1", "2", " ", "c", "h", "i", "f", "f", "r", "e", "s">>
ErrDE == <<"E", "r", "r", "e", "u", "r", ":", " ", "N", "u", "m", "é", "r", "o", " ", "a", "l", "l", "e", "m", "a", "n", "d", " ", "m", "a", "l", " ", "f", "o", "r", "m", "a", "t", "é">>
ErrNonReconnu == <<"E", "r", "r", "e", "u", "r", ":", " ", "N", "u", "m", "é", "r", "o", " ", "n", "o", "n", " ", "r", "e", "c", "o", "n", "n", "u", " ", "o", "u", " ", "m", "a", "l", " ", "f", "o", "r", "m", "a", "t", "é">>

\* mutant: the landline trunks without 09
testFixeRegexNo09(cleaned) ==
    \E d \in {"1", "2", "3", "4", "5"} : startsWith(cleaned, <<"0", d>>)

\* mutant: the landline trunks with 08 added
testFixeRegexWith08(cleaned) ==
    \E d \in {"1", "2", "3", "4", "5", "8", "9"} : startsWith(cleaned, <<"0", d>>)

\* /^(01|02|03|04|05|09)/.test(cleaned)
testFixeRegex(cleaned) ==
    \E d \in {"1", "2", "3", "4", "5", "9"} : startsWith(cleaned, <<"0", d>>)

\* mutant: the national trunk '0' kept after '+33'
formatFrenchKeepZero(cleaned) ==
    IF startsWith(cleaned, <<"0">>)
    THEN IF startsWith(cleaned, <<"0", "6">>) \/ startsWith(cleaned, <<"0", "7">>)
         THEN IF Len(cleaned) # 10 THEN ErrFR
              ELSE <<"+", "3", "3">> \o cleaned
         ELSE IF testFixeRegex(cleaned) /\ Len(cleaned) = 10 THEN ErrFixe
         ELSE <<>>
    ELSE IF startsWith(cleaned, <<"3", "3">>) /\ Len(cleaned) = 11
         THEN LET withoutPrefix == substring(cleaned, 2) IN
              IF startsWith(withoutPrefix, <<"6">>) \/ startsWith(withoutPrefix, <<"7">>)
              THEN <<"+">> \o cleaned
              ELSE <<>>
    ELSE <<>>

\* the French block; <<>> stands for "no return here, go on"
formatFrench(cleaned) ==
    IF startsWith(cleaned, <<"0">>)
    THEN IF startsWith(cleaned, <<"0", "6">>) \/ startsWith(cleaned, <<"0", "7">>)
         THEN IF Len(cleaned) # 10 THEN ErrFR
              ELSE <<"+", "3", "3">> \o substring(cleaned, 1)
         ELSE IF testFixeRegex(cleaned) /\ Len(cleaned) = 10 THEN ErrFixe
         ELSE <<>>
    ELSE IF startsWith(cleaned, <<"3", "3">>) /\ Len(cleaned) = 11
         THEN LET withoutPrefix == substring(cleaned, 2) IN
              IF startsWith(withoutPrefix, <<"6">>) \/ startsWith(withoutPrefix, <<"7">>)
              THEN <<"+">> \o cleaned
              ELSE <<>>
    ELSE <<>>

\* the Swiss block
formatSwiss(cleaned) ==
    IF startsWith(cleaned, <<"4", "1">>)
    THEN IF startsWith(cleaned, <<"4", "1", "7">>)
         THEN IF Len(cleaned) # 11 THEN ErrCH ELSE <<"+">> \o cleaned
         ELSE IF Len(cleaned) = 11 THEN <<"+">> \o cleaned
         ELSE <<>>
    ELSE <<>>

\* the Reunion block
formatReunion(cleaned) ==
    IF startsWith(cleaned, <<"2", "6", "2">>)
    THEN IF startsWith(cleaned, <<"2", "6", "2", "6", "9", "2">>) \/ startsWith(cleaned, <<"2", "6", "2", "6", "9", "3">>)
         THEN IF Len(cleaned) # 12 THEN ErrRUNMobile ELSE <<"+">> \o cleaned
         ELSE IF startsWith(cleaned, <<"2", "6", "2", "2", "6", "2">>)
         THEN IF Len(cleaned) # 12 THEN ErrRUNFixe ELSE <<"+">> \o cleaned
         ELSE <<>>
    ELSE <<>>

\* mutant: the upper length limit off by one
formatGermanOffByOne(cleaned) ==
    IF startsWith(cleaned, <<"4", "9">>)
    THEN IF Len(cleaned) < 11 \/ Len(cleaned) > 16 THEN ErrDE
         ELSE <<"+">> \o cleaned
    ELSE ErrNonReconnu

\* the German block and the final return
formatGerman(cleaned) ==
    IF startsWith(cleaned, <<"4", "9">>)
    THEN IF Len(cleaned) < 11 \/ Len(cleaned) > 15 THEN ErrDE
         ELSE <<"+">> \o cleaned
    ELSE ErrNonReconnu

\* the chain of country blocks on the cleaned, non-empty string
formatCleaned(cleaned) ==
    IF formatFrench(cleaned) # <<>> THEN formatFrench(cleaned)
    ELSE IF formatSwiss(cleaned) # <<>> THEN formatSwiss(cleaned)
    ELSE IF startsWith(cleaned, <<"3", "2">>)
         THEN IF Len(cleaned) # 11 THEN ErrBE ELSE <<"+">> \o cleaned
    ELSE IF startsWith(cleaned, <<"3", "9">>)
         THEN IF Len(cleaned) # 12 THEN ErrIT ELSE <<"+">> \o cleaned
    ELSE IF startsWith(cleaned, <<"3", "7", "6">>)
         THEN IF Len(cleaned) # 9 THEN ErrAND ELSE <<"+">> \o cleaned
    ELSE IF formatReunion(cleaned) # <<>> THEN formatReunion(cleaned)
    ELSE formatGerman(cleaned)

formatPhoneNumber(phone) ==
    IF Falsy(phone) THEN Return(ErrVide)
    ELSE LET c == cleanRawInput(phone) IN
         IF c.threw THEN c
         ELSE IF c.value = <<>> THEN Return(ErrInvalide)
         ELSE Return(formatCleaned(c.value))

----------------------------------------------------------------------------
\* The calls made on one input value.

VARIABLES
    phone,      \* the value handed to the three functions
    cleaned,    \* outcome of cleanRawInput(phone)
    recleaned,  \* outcome of cleanRawInput(cleanRawInput(phone))
    phoneType,  \* outcome of detectPhoneType(phone)
    formatted,  \* outcome of formatPhoneNumber(phone)
    formattedPlus,      \* outcome of formatPhoneNumber('+' + phone)
    formattedZeros,     \* outcome of formatPhoneNumber('00' + phone)
    phoneTypePrefixed,  \* outcome of detectPhoneType('33' + phone.substring(1))
    orderLabels         \* labels of phone under the reorderings of the table

\* the outcomes of the calls on the other written forms of the number
formVars == <<formattedPlus, formattedZeros, phoneTypePrefixed, orderLabels>>

vars == <<phone, cleaned, recleaned, phoneType, formatted, formVars>>

Str(chars) == [tag |-> "string", chars |-> chars]

\* n filler digits 1, 2, ..., 9, 0, 1, ...
Fill(n) == [i \in 1..n |-> DigitSeq[(i % 10) + 1]]

\* what may stand in front of the number: nothing, '+', '00'
Leads == {<<>>, <<"+">>, <<"0", "0">>}

\* the leading digits: every digit string of at most two digits, and the
\* longer prefixes the rules distinguish
ShortHeads ==
    {<<>>} \cup {<<a>> : a \in Digits} \cup {<<a, b>> : a \in Digits, b \in Digits}

LongHeads ==
    {<<"3", "3", "6">>, <<"3", "3", "7">>, <<"3", "3", "1">>, <<"4", "1", "7">>, <<"4", "1", "2">>, <<"3", "7", "6">>, <<"2", "6", "2", "6", "9", "2">>, <<"2", "6", "2", "6", "9", "3">>,
     <<"2", "6", "2", "2", "6", "2">>, <<"2", "6", "2", "0", "0", "0">>, <<"0", "8", "0", "9">>}

\* a separator or a stray '+' after the leading digits
Mids == {<<>>, <<".">>, <<"+">>}

StringInputs ==
    {Str(l \o h \o m \o Fill(n)) :
        l \in Leads, h \in ShortHeads \cup LongHeads, m \in Mids, n \in 0..MaxFill}

OtherInputs ==
    {[tag |-> "null", chars |-> <<>>], [tag |-> "undefined", chars |-> <<>>],
     [tag |-> "number", chars |-> <<"0">>], [tag |-> "number", chars |-> <<"3", "3", "6", "1", "2", "3", "4", "5", "6", "7", "8">>]}

Inputs == StringInputs \cup OtherInputs

NotCalled == [done |-> FALSE, threw |-> FALSE, value |-> <<>>]

Done(c) == [done |-> TRUE, threw |-> c.threw, value |-> c.value]

Init ==
    /\ phone \in Inputs
    /\ cleaned = NotCalled
    /\ recleaned = NotCalled
    /\ phoneType = NotCalled
    /\ formatted = NotCalled
    /\ formattedPlus = NotCalled
    /\ formattedZeros = NotCalled
    /\ phoneTypePrefixed = NotCalled
    /\ orderLabels = [done |-> FALSE, labels |-> {}]

CallCleanRawInput ==
    /\ ~cleaned.done
    /\ cleaned' = Done(cleanRawInput(phone))
    /\ UNCHANGED <<phone, recleaned, phoneType, formatted, formVars>>

\* cleanRawInput applied to its own result
CallCleanAgain ==
    /\ cleaned.done /\ ~cleaned.threw /\ ~recleaned.done
    /\ recleaned' = Done(cleanRawInput(Str(cleaned.value)))
    /\ UNCHANGED <<phone, cleaned, phoneType, formatted, formVars>>

CallDetectPhoneType ==
    /\ ~phoneType.done
    /\ phoneType' = Done(detectPhoneType(phone))
    /\ UNCHANGED <<phone, cleaned, recleaned, formatted, formVars>>

CallFormatPhoneNumber ==
    /\ ~formatted.done
    /\ formatted' = Done(formatPhoneNumber(phone))
    /\ UNCHANGED <<phone, cleaned, recleaned, phoneType, formVars>>

Next ==
    \/ CallCleanRawInput
    \/ CallCleanAgain
    \/ CallDetectPhoneType
    \/ CallFormatPhoneNumber

Spec == Init /\ [][Next]_vars

\* The same number written with the international-access marker:
\* formatPhoneNumber('+' + phone) and formatPhoneNumber('00' + phone).
CallFormatWithPlus ==
    /\ phone.tag = "string" /\ ~formattedPlus.done
    /\ formattedPlus' = Done(formatPhoneNumber(Str(<<"+">> \o phone.chars)))
    /\ UNCHANGED <<phone, cleaned, recleaned, phoneType, formatted,
                   formattedZeros, phoneTypePrefixed, orderLabels>>

CallFormatWithZeros ==
    /\ phone.tag = "string" /\ ~formattedZeros.done
    /\ formattedZeros' = Done(formatPhoneNumber(Str(<<"0", "0">> \o phone.chars)))
    /\ UNCHANGED <<phone, cleaned, recleaned, phoneType, formatted,
                   formattedPlus, phoneTypePrefixed, orderLabels>>

NextAccess ==
    \/ CallFormatPhoneNumber
    \/ CallFormatWithPlus
    \/ CallFormatWithZeros

SpecAccess == Init /\ [][NextAccess]_vars

\* The local form '0' + n written in international form '33' + n:
\* detectPhoneType('33' + phone.substring(1)).
CallDetectPrefixedForm ==
    /\ phone.tag = "string" /\ startsWith(phone.chars, <<"0">>)
    /\ ~phoneTypePrefixed.done
    /\ phoneTypePrefixed' =
          Done(detectPhoneType(Str(<<"3", "3">> \o substring(phone.chars, 1))))
    /\ UNCHANGED <<phone, cleaned, recleaned, phoneType, formatted,
                   formattedPlus, formattedZeros, orderLabels>>

\* The table in another order of Object.entries: countries i and j
\* exchanged, and the patterns of every country in reverse order or not.
\* If two patterns with different labels accept one string, one of these
\* orders returns another label than the table as written: the first
\* accepting pattern belongs to some country A, and either the other one is
\* in A too (reversing the patterns puts it first) or it is in a country B
\* (exchanging A and B puts B first, and B's first or last accepting pattern
\* has a label other than A's).
withPatterns(config, patterns) ==
    [code |-> config.code, prefix |-> config.prefix, patterns |-> patterns]

RECURSIVE reversed(_)
reversed(seq) ==
    IF seq = <<>> THEN <<>> ELSE Append(reversed(Tail(seq)), Head(seq))

\* the first n entries of seq with entries i and j exchanged
RECURSIVE exchangedUpTo(_, _, _, _)
exchangedUpTo(seq, i, j, n) ==
    IF n = 0 THEN <<>>
    ELSE Append(exchangedUpTo(seq, i, j, n - 1),
                IF n = i THEN seq[j] ELSE IF n = j THEN seq[i] ELSE seq[n])

exchanged(seq, i, j) == exchangedUpTo(seq, i, j, Len(seq))

\* every country of the table with its patterns in reverse order
RECURSIVE patternsReversed(_)
patternsReversed(configs) ==
    IF configs = <<>> THEN <<>>
    ELSE <<withPatterns(Head(configs), reversed(Head(configs).patterns))>>
            \o patternsReversed(Tail(configs))

reordered(configs, i, j, rev) ==
    IF rev THEN patternsReversed(exchanged(configs, i, j))
    ELSE exchanged(configs, i, j)

Reorderings ==
    {reordered(COUNTRY_CONFIGS, i, j, rev) :
        i \in 1..Len(COUNTRY_CONFIGS), j \in 1..Len(COUNTRY_CONFIGS), rev \in BOOLEAN}

\* detectPhoneType(phone) run once under each of these orders
CallDetectAnyOrder ==
    /\ phone.tag = "string" /\ ~orderLabels.done
    /\ orderLabels' =
          [done |-> TRUE,
           labels |-> {detectIn(t, cleanRawInput(phone).value) : t \in Reorderings}]
    /\ UNCHANGED <<phone, cleaned, recleaned, phoneType, formatted,
                   formattedPlus, formattedZeros, phoneTypePrefixed>>

NextTable ==
    \/ CallDetectPhoneType
    \/ CallDetectPrefixedForm

SpecTable == Init /\ [][NextTable]_vars

NextOrder ==
    \/ CallDetectPhoneType
    \/ CallDetectAnyOrder

SpecOrder == Init /\ [][NextOrder]_vars

TypeOK ==
    /\ phone \in Inputs
    /\ \A o \in {cleaned, recleaned, phoneType, formatted} :
          o.done \in BOOLEAN /\ o.threw \in BOOLEAN

\* sanity: the repository's own test table (test-phones.js)
TestsPass ==
    /\ cleanRawInput(Str(<<"0", "6", ".", "1", "2", ".", "3", "4", ".", "5", "6", ".", "7", "8">>)).value = <<"0", "6", "1", "2", "3", "4", "5", "6", "7", "8">>
    /\ cleanRawInput(Str(<<"+", "3", "3", " ", "(", "6", ")", " ", "1", "2", ".", "3", "4", ".", "5", "6", ".", "7", "8">>)).value = <<"3", "3", "6", "1", "2", "3", "4", "5", "6", "7", "8">>
    /\ formatPhoneNumber(Str(<<"0", "6", "1", "2", "3", "4", "5">>)).value = ErrFR
    /\ formatPhoneNumber(Str(<<"0", "1", "2", "3", "4", "5", "6", "7", "8", "9">>)).value = ErrFixe
    /\ formatPhoneNumber(Str(<<"0", "0", "4", "1", "7", "9", "1", "2", "3", "4", "5", "6", "7">>)).value = <<"+", "4", "1", "7", "9", "1", "2", "3", "4", "5", "6", "7">>
    /\ formatPhoneNumber(Str(<<"2", "6", "2", "2", "6", "2", "1", "2", "3", "4", "5", "6">>)).value = <<"+", "2", "6", "2", "2", "6", "2", "1", "2", "3", "4", "5", "6">>
    /\ formatPhoneNumber(Str(<<"a", "b", "c", "1", "2", "3">>)).value = ErrNonReconnu
    /\ detectPhoneType(Str(<<"0", "1", "2", "3", "4", "5", "6", "7", "8", "9">>)).value = <<"F", "i", "x", "e", " ", "F", "R">>
    /\ detectPhoneType(Str(<<"4", "1", "2", "2", "3", "4", "5", "6", "7", "8", "9">>)).value = <<"F", "i", "x", "e", " ", "C", "H">>
    /\ detectPhoneType(Str(<<"2", "6", "2", "6", "9", "2", "1", "2", "3", "4", "5", "6">>)).value = <<"M", "o", "b", "i", "l", "e", " ", "R", "U", "N">>
    /\ detectPhoneType(Str(<<"4", "9", "1", "2", "3", "4", "5", "6", "7", "8", "9">>)).value = <<"D", "E">>
    /\ detectPhoneType(Str(<<"1", "2", "3", "4", "5", "6", "7", "8", "9">>)).value = <<"I", "n", "c", "o", "n", "n", "u">>

----------------------------------------------------------------------------
\* Vocabulary of the claims.

IsString == phone.tag = "string"

\* the cleaned form of the input string
CleanedForm == cleanRawInput(phone).value

DigitsOnly(s) == \A i \in 1..Len(s) : s[i] \in Digits

DigitsOf(s) == SelectSeq(s, LAMBDA c : c \in Digits)

\* a successful result of format is a '+'-prefixed number
Succeeded(v) == startsWith(v, <<"+">>)

\* the error kinds of the messages
KindOf(v) ==
    IF v \in {ErrVide, ErrInvalide} THEN "EmptyInput"
    ELSE IF v = ErrFixe THEN "RejectedLineType"
    ELSE IF v \in {ErrFR, ErrCH, ErrBE, ErrIT, ErrAND, ErrRUNMobile, ErrRUNFixe, ErrDE}
         THEN "InvalidLength"
    ELSE IF v = ErrNonReconnu THEN "UnrecognizedFormat"
    ELSE "None"

\* the label of the country and line type a formatted number belongs to
LabelOfFormatted(v) ==
    IF startsWith(v, <<"+", "3", "3">>) THEN <<"M", "o", "b", "i", "l", "e", " ", "F", "R">>
    ELSE IF startsWith(v, <<"+", "4", "1", "7">>) THEN <<"M", "o", "b", "i", "l", "e", " ", "C", "H">>
    ELSE IF startsWith(v, <<"+", "4", "1">>) THEN <<"F", "i", "x", "e", " ", "C", "H">>
    ELSE IF startsWith(v, <<"+", "3", "2">>) THEN <<"B", "E">>
    ELSE IF startsWith(v, <<"+", "3", "9">>) THEN <<"I", "T">>
    ELSE IF startsWith(v, <<"+", "3", "7", "6">>) THEN <<"A", "N", "D">>
    ELSE IF startsWith(v, <<"+", "2", "6", "2", "6", "9", "2">>) \/ startsWith(v, <<"+", "2", "6", "2", "6", "9", "3">>) THEN <<"M", "o", "b", "i", "l", "e", " ", "R", "U", "N">>
    ELSE IF startsWith(v, <<"+", "2", "6", "2", "2", "6", "2">>) THEN <<"F", "i", "x", "e", " ", "R", "U", "N">>
    ELSE IF startsWith(v, <<"+", "4", "9">>) THEN <<"D", "E">>
    ELSE <<"I", "n", "c", "o", "n", "n", "u">>

DialingPrefixes == {<<"3", "3">>, <<"4", "1">>, <<"3", "2">>, <<"3", "9">>, <<"3", "7", "6">>, <<"2", "6", "2">>, <<"4", "9">>}

----------------------------------------------------------------------------
\* C1: whenever formatPhoneNumber succeeds on a string, detectPhoneType of
\* the same string returns the label of the country and line type of the
\* formatted number, and never 'Inconnu'.  Stated on the inputs whose
\* cleaned form is digits only, so that the stray '+' of C2 plays no part.
C1_ClassifyAgreesWithFormat ==
    (IsString /\ DigitsOnly(CleanedForm) /\ formatted.done /\ phoneType.done
        /\ Succeeded(formatted.value))
        => /\ phoneType.value = LabelOfFormatted(formatted.value)
           /\ phoneType.value # <<"I", "n", "c", "o", "n", "n", "u">>

\* C2: cleanRawInput returns exactly the digits of the input in order, with
\* a leading '+' dropped, otherwise a leading '00' dropped; the result holds
\* digits only; null, undefined and '' give ''.
C2_CleanKeepsDigitsOnly ==
    cleaned.done =>
        /\ ~cleaned.threw
        /\ DigitsOnly(cleaned.value)
        /\ phone.tag \in {"null", "undefined"} => cleaned.value = <<>>
        /\ IsString =>
              cleaned.value =
                 IF startsWith(stripNonDigits(phone.chars), <<"+">>)
                 THEN DigitsOf(phone.chars)
                 ELSE IF startsWith(DigitsOf(phone.chars), <<"0", "0">>)
                      THEN substring(DigitsOf(phone.chars), 2)
                      ELSE DigitsOf(phone.chars)

\* C3 as stated: on every digit-only string x,
\* cleanRawInput(cleanRawInput(x)) = cleanRawInput(x).
C3_IdempotentOnDigits ==
    (IsString /\ DigitsOnly(phone.chars) /\ recleaned.done)
        => recleaned.value = cleaned.value

\* C3 amended: on a digit-only string x, cleaning twice equals cleaning once
\* exactly when x does not begin with '0000' (the second pass then strips a
\* second '00').
C3_IdempotentUnlessFourZeros ==
    (IsString /\ DigitsOnly(phone.chars) /\ recleaned.done)
        => (recleaned.value = cleaned.value <=> ~startsWith(phone.chars, <<"0", "0", "0", "0">>))

C3_Witness ==
    /\ IsString /\ DigitsOnly(phone.chars) /\ recleaned.done
    /\ startsWith(phone.chars, <<"0", "0", "3", "3">>) /\ Len(phone.chars) = 13
    /\ recleaned.value = cleaned.value /\ Len(cleaned.value) = 11

\* C4: every result of formatPhoneNumber is either '+' followed by digits
\* only that begin with one of the seven dialing prefixes, or a message
\* starting with 'Erreur:'.
C4_FormatResultShape ==
    (IsString /\ formatted.done) =>
        \/ /\ Succeeded(formatted.value)
           /\ DigitsOnly(substring(formatted.value, 1))
           /\ \E p \in DialingPrefixes : startsWith(substring(formatted.value, 1), p)
        \/ startsWith(formatted.value, <<"E", "r", "r", "e", "u", "r", ":">>)

\* C5: a cleaned form starting with '06' or '07' gives '+33' followed by the
\* cleaned form without its leading '0' when it has 10 characters and an
\* InvalidLength failure otherwise; a cleaned form of 11 characters starting
\* with '336' or '337' gives '+' followed by the cleaned form.
C5_FrenchMobile ==
    (IsString /\ formatted.done) =>
        /\ (startsWith(CleanedForm, <<"0", "6">>) \/ startsWith(CleanedForm, <<"0", "7">>)) =>
              IF Len(CleanedForm) = 10
              THEN formatted.value = <<"+", "3", "3">> \o substring(CleanedForm, 1)
              ELSE KindOf(formatted.value) = "InvalidLength"
        /\ (Len(CleanedForm) = 11
              /\ (startsWith(CleanedForm, <<"3", "3", "6">>) \/ startsWith(CleanedForm, <<"3", "3", "7">>)))
              => formatted.value = <<"+">> \o CleanedForm

C5_Witness ==
    /\ IsString /\ formatted.done
    /\ startsWith(CleanedForm, <<"0", "7">>) /\ Len(CleanedForm) = 10
    /\ DigitsOnly(CleanedForm)
    /\ startsWith(formatted.value, <<"+", "3", "3", "7">>) /\ Len(formatted.value) = 12

\* C6: a cleaned form of 10 characters starting with 01, 02, 03, 04, 05 or
\* 09 is rejected with 'Erreur: Numéro fixe non autorisé' (RejectedLineType)
\* and never formatted.
C6_FrenchLandlineRejected ==
    (IsString /\ formatted.done /\ Len(CleanedForm) = 10
        /\ \E d \in {"1", "2", "3", "4", "5", "9"} : startsWith(CleanedForm, <<"0", d>>))
        => /\ formatted.value = ErrFixe
           /\ KindOf(formatted.value) = "RejectedLineType"
           /\ ~Succeeded(formatted.value)

C6_Witness ==
    /\ IsString /\ formatted.done
    /\ Len(CleanedForm) = 10 /\ startsWith(CleanedForm, <<"0", "9">>)
    /\ formatted.value = ErrFixe

\* a cleaned form of 10 characters starting with '0' that is neither a mobile
\* (06, 07) nor a landline (01-05, 09) form
OtherZeroForm ==
    /\ Len(CleanedForm) = 10 /\ startsWith(CleanedForm, <<"0">>)
    /\ CleanedForm[2] \in Digits \ {"1", "2", "3", "4", "5", "6", "7", "9"}

\* C7 as stated: such a form ('08...', '00...') fails with kind
\* InvalidLength.  Stated on the inputs whose cleaned form is digits only.
C7_OtherZeroFormInvalidLength ==
    (IsString /\ formatted.done /\ OtherZeroForm /\ DigitsOnly(CleanedForm))
        => KindOf(formatted.value) = "InvalidLength"

\* C7 amended: such a form fails with 'Erreur: Numéro non reconnu ou mal
\* formaté', kind UnrecognizedFormat.
C7_OtherZeroFormUnrecognized ==
    (IsString /\ formatted.done /\ OtherZeroForm)
        => /\ formatted.value = ErrNonReconnu
           /\ KindOf(formatted.value) = "UnrecognizedFormat"

C7_Witness ==
    /\ IsString /\ formatted.done /\ OtherZeroForm
    /\ startsWith(CleanedForm, <<"0", "8">>) /\ DigitsOnly(CleanedForm)
    /\ formatted.value = ErrNonReconnu

\* C8: a cleaned form starting with '41' gives '+' followed by the cleaned
\* form when it has 11 characters and an InvalidLength failure otherwise,
\* for '417' and for the other numbers alike.  Stated on the inputs whose
\* cleaned form is digits only.
C8_SwissRule ==
    (IsString /\ formatted.done /\ DigitsOnly(CleanedForm)
        /\ startsWith(CleanedForm, <<"4", "1">>))
        => IF Len(CleanedForm) = 11
           THEN formatted.value = <<"+">> \o CleanedForm
           ELSE KindOf(formatted.value) = "InvalidLength"

\* the length rule of the remaining countries
LengthOK(c) ==
    IF startsWith(c, <<"3", "2">>) THEN Len(c) = 11
    ELSE IF startsWith(c, <<"3", "9">>) THEN Len(c) = 12
    ELSE IF startsWith(c, <<"3", "7", "6">>) THEN Len(c) = 9
    ELSE IF startsWith(c, <<"2", "6", "2">>) THEN Len(c) = 12
    ELSE Len(c) >= 11 /\ Len(c) <= 15

RemainingCountryForm(c) ==
    \/ startsWith(c, <<"3", "2">>) \/ startsWith(c, <<"3", "9">>) \/ startsWith(c, <<"3", "7", "6">>)
    \/ startsWith(c, <<"2", "6", "2", "6", "9", "2">>) \/ startsWith(c, <<"2", "6", "2", "6", "9", "3">>) \/ startsWith(c, <<"2", "6", "2", "2", "6", "2">>)
    \/ startsWith(c, <<"4", "9">>)

\* C9: a cleaned form starting with 32, 39, 376, 262692, 262693, 262262 or
\* 49 gives '+' followed by the cleaned form exactly when its length
\* satisfies the country's rule (11, 12, 9, 12, 11..15), and an
\* InvalidLength failure otherwise.
C9_RemainingCountries ==
    (IsString /\ formatted.done /\ RemainingCountryForm(CleanedForm))
        => IF LengthOK(CleanedForm)
           THEN formatted.value = <<"+">> \o CleanedForm
           ELSE /\ KindOf(formatted.value) = "InvalidLength"
                /\ formatted.value # <<"+">> \o CleanedForm

C9_Witness ==
    /\ IsString /\ formatted.done
    /\ startsWith(CleanedForm, <<"4", "9">>) /\ Len(CleanedForm) = 16
    /\ DigitsOnly(CleanedForm)
    /\ formatted.value = ErrDE

\* C10: none of the three functions throws, whatever value it is given, and
\* every failure of formatPhoneNumber is a returned 'Erreur:' message.
C10_NeverThrows ==
    /\ cleaned.done => ~cleaned.threw
    /\ phoneType.done => ~phoneType.threw
    /\ formatted.done =>
          /\ ~formatted.threw
          /\ Succeeded(formatted.value) \/ KindOf(formatted.value) # "None"

\* a non-empty digit string that does not begin with '0'
BareNumber ==
    /\ IsString /\ phone.chars # <<>> /\ DigitsOnly(phone.chars)
    /\ ~startsWith(phone.chars, <<"0">>)

\* C11 as stated: for every digit string X that does not begin with '0',
\* formatPhoneNumber('+' + X), formatPhoneNumber('00' + X) and
\* formatPhoneNumber(X) return the same result.
C11_AccessFormsEquivalent ==
    (IsString /\ DigitsOnly(phone.chars) /\ ~startsWith(phone.chars, <<"0">>)
        /\ formatted.done /\ formattedPlus.done /\ formattedZeros.done)
        => /\ formattedPlus = formatted
           /\ formattedZeros = formatted

\* C11 amended: the three results are the same for every non-empty digit
\* string X that does not begin with '0'.
C11_AccessFormsEquivalentNonEmpty ==
    (BareNumber /\ formatted.done /\ formattedPlus.done /\ formattedZeros.done)
        => /\ formattedPlus = formatted
           /\ formattedZeros = formatted

C11_Witness ==
    /\ BareNumber /\ formatted.done /\ formattedPlus.done /\ formattedZeros.done
    /\ startsWith(phone.chars, <<"4", "1", "7">>) /\ Len(phone.chars) = 11
    /\ formattedZeros.value = <<"+">> \o phone.chars
    /\ formattedPlus.value = formatted.value

\* the input is '0' followed by a national number of 9 digits
LocalFrenchForm ==
    /\ IsString /\ Len(phone.chars) = 10 /\ DigitsOnly(phone.chars)
    /\ startsWith(phone.chars, <<"0">>)

\* C12: for every national number n of 9 digits, detectPhoneType('0' + n)
\* equals detectPhoneType('33' + n), and both are 'Mobile FR' when n starts
\* with 6 or 7.
C12_BothFrenchFormsSameLabel ==
    (LocalFrenchForm /\ phoneType.done /\ phoneTypePrefixed.done)
        => /\ phoneTypePrefixed.value = phoneType.value
           /\ (phone.chars[2] \in {"6", "7"}) =>
                 /\ phoneType.value = <<"M", "o", "b", "i", "l", "e", " ", "F", "R">>
                 /\ phoneTypePrefixed.value = <<"M", "o", "b", "i", "l", "e", " ", "F", "R">>

\* the conditions (a), (b), (c) of a pattern, read literally: the string
\* starts with an accepted prefix, starts with no excluded prefix, and has
\* a length the pattern allows
StartsWithAccepted(pattern, c) ==
    \E i \in 1..Len(pattern.startsWith) : startsWith(c, pattern.startsWith[i])

StartsWithExcluded(pattern, c) ==
    \E i \in 1..Len(pattern.excludeStartsWith) :
        startsWith(c, pattern.excludeStartsWith[i])

SatisfiesPattern(pattern, c) ==
    /\ StartsWithAccepted(pattern, c)
    /\ ~StartsWithExcluded(pattern, c)
    /\ hasValidLength(pattern, c)

AllPatterns ==
    UNION {{COUNTRY_CONFIGS[i].patterns[j] : j \in 1..Len(COUNTRY_CONFIGS[i].patterns)} :
              i \in 1..Len(COUNTRY_CONFIGS)}

\* C13: detectPhoneType returns a pattern's label only when the cleaned
\* string satisfies (a), (b) and (c) of that pattern, and 'Inconnu'
\* otherwise; for a cleaned string of 10 characters starting with '0' it
\* returns 'Mobile FR' only for 06 / 07, 'Fixe FR' only for 01-05 / 09 and
\* 'Inconnu' in every other case.  Stated on the inputs whose cleaned form
\* is digits only.
C13_LabelOnlyWhenPatternSatisfied ==
    (IsString /\ DigitsOnly(CleanedForm) /\ phoneType.done) =>
        /\ phoneType.value # <<"I", "n", "c", "o", "n", "n", "u">> =>
              \E pat \in AllPatterns :
                  pat.type = phoneType.value /\ SatisfiesPattern(pat, CleanedForm)
        /\ phoneType.value = <<"I", "n", "c", "o", "n", "n", "u">> =>
              ~\E pat \in AllPatterns : SatisfiesPattern(pat, CleanedForm)
        /\ (Len(CleanedForm) = 10 /\ startsWith(CleanedForm, <<"0">>)) =>
              phoneType.value =
                 IF CleanedForm[2] \in {"6", "7"} THEN <<"M", "o", "b", "i", "l", "e", " ", "F", "R">>
                 ELSE IF CleanedForm[2] \in {"1", "2", "3", "4", "5", "9"}
                      THEN <<"F", "i", "x", "e", " ", "F", "R">>
                 ELSE <<"I", "n", "c", "o", "n", "n", "u">>

\* the string gets past the special case and reaches the table loop
ReachesLoop(c) == frenchLocalType(c) = <<>>

\* the labels of the patterns whose three conditions, as the loop computes
\* them, hold of the string
MatchedLabels(c) == {pat.type : pat \in {q \in AllPatterns : patternMatches(q, c)}}

\* C14: the label detectPhoneType returns for a string is the same under
\* every order of the countries and of the patterns within a country: no
\* string that reaches the table loop is accepted by two patterns with
\* different labels.
C14_OrderIndependent ==
    (IsString /\ orderLabels.done) =>
        /\ Cardinality(orderLabels.labels) = 1
        /\ phoneType.done => orderLabels.labels = {phoneType.value}
        /\ ReachesLoop(CleanedForm) => Cardinality(MatchedLabels(CleanedForm)) <= 1

C14_Witness ==
    /\ IsString /\ orderLabels.done /\ phoneType.done
    /\ startsWith(CleanedForm, <<"4", "1", "7">>) /\ Len(CleanedForm) = 11
    /\ ReachesLoop(CleanedForm)
    /\ Cardinality({q \in AllPatterns : StartsWithAccepted(q, CleanedForm)}) = 2
    /\ orderLabels.labels = {<<"M", "o", "b", "i", "l", "e", " ", "C", "H">>}

====
